---- MODULE Spec2Model ----
(***************************************************************************)
(* Habit tracker (main_library.py, class EditHabits): the habit document   *)
(* held in memory (habit_data), the JSON file it is loaded from and saved  *)
(* to, and the operations that mutate or query it.                         *)
(*                                                                         *)
(* A Python dict is a sequence of <<key, value>> pairs in insertion order. *)
(* A Python list is a sequence.  A habit is the pair <<task, time>>.       *)
(* A timestamp string is a record [tick, form]: str(datetime.now()) read   *)
(* at clock value c is [tick |-> c, form |-> "micro"]; None is Null.       *)
(***************************************************************************)
EXTENDS Integers, Sequences, FiniteSets, TLC

VARIABLES
    file,           \* the content of the JSON file at file_path
    habit_data,     \* self.habit_data
    clock,          \* the local clock datetime.now() reads
    last,           \* the last call made on the object, its arguments and what it reported
    preceding,      \* the add_uncompleted_habit call `last` directly followed, if it succeeded
    nops,           \* number of calls made so far
    tasks_for_day,  \* the list get_tasks_for_day returned last
    all_habits,     \* the list list_all_habits returned last
    analysis,       \* the dict analyze_habits returned last
    habit_streaks,  \* analyze_habits' local dict habit_streaks when it last returned
    habit_data2     \* self.habit_data of a second EditHabits object over the same file

vars == <<file, habit_data, clock, last, preceding, nops, tasks_for_day, all_habits, analysis, habit_streaks, habit_data2>>

(***************************************************************************)
(* Bounds and argument sets                                                *)
(***************************************************************************)
MaxOps == 3
MaxDueOps == 2
MaxAnalyzeOps == 2
MaxTripOps == 3
MaxSaveOps == 2
MaxTwoOps == 2

expected_periods == <<"daily", "weekly", "monthly", "yearly", "once_off">>
ExpectedPeriodSet == {expected_periods[i] : i \in 1..Len(expected_periods)}
RecurringPeriods == ExpectedPeriodSet \ {"once_off"}
PeriodArgs == {"daily", "yearly", "once_off", "hourly"}
Tasks == {"Read", "Run"}
Times == {"07:00", "Monday 09:00"}
NoStr == ""
NoneHabit == "None"
Null == [tick |-> 0 - 1, form |-> "null"]
StrNow(c) == [tick |-> c, form |-> "micro"]
CompletionTimes == {[tick |-> 0, form |-> "minute"]}

(***************************************************************************)
(* dict and list primitives                                                *)
(***************************************************************************)
DictHas(d, k) == \E i \in 1..Len(d) : d[i][1] = k
DictIdx(d, k) == CHOOSE i \in 1..Len(d) : d[i][1] = k
DictGet(d, k) == d[DictIdx(d, k)][2]
DictGetOr(d, k, default) == IF DictHas(d, k) THEN DictGet(d, k) ELSE default
DictSet(d, k, v) ==
    IF DictHas(d, k) THEN [d EXCEPT ![DictIdx(d, k)] = <<k, v>>]
    ELSE Append(d, <<k, v>>)
DictKeys(d) == {d[i][1] : i \in 1..Len(d)}

\* d[k1][k2] = v  (KeyError, here an evaluation error, when d has no k1)
DictSetIn(d, k1, k2, v) == DictSet(d, k1, DictSet(DictGet(d, k1), k2, v))

RemoveAt(s, i) == SubSeq(s, 1, i - 1) \o SubSeq(s, i + 1, Len(s))

\* list.remove(x): drops the first element equal to x
ListRemove(s, x) ==
    LET i == CHOOSE j \in 1..Len(s) : s[j] = x /\ \A k \in 1..(j - 1) : s[k] # x
    IN  RemoveAt(s, i)

\* the position at which `for habit in bucket: if habit[0] == task` first succeeds, 0 if never
FirstMatch(bucket, task) ==
    IF \E i \in 1..Len(bucket) : bucket[i][1] = task
    THEN CHOOSE i \in 1..Len(bucket) :
            bucket[i][1] = task /\ \A k \in 1..(i - 1) : bucket[k][1] # task
    ELSE 0

(***************************************************************************)
(* The store                                                               *)
(***************************************************************************)
EmptyBuckets == [i \in 1..Len(expected_periods) |-> <<expected_periods[i], <<>>>>]

empty_data ==
    << <<"uncompleted_habits", EmptyBuckets>>,
       <<"completed_habits", EmptyBuckets>>,
       <<"history", <<>>>> >>

MissingFile == [kind |-> "missing", indent |-> 0, data |-> <<>>]
CorruptFile == [kind |-> "corrupt", indent |-> 0, data |-> <<>>]

\* json.dump(value, file, indent=4) over a file opened with 'w'
JsonDump(value) == [kind |-> "json", indent |-> 4, data |-> value]

create_empty_habits_file(f) == JsonDump(empty_data)

load_habit_data(f) ==
    IF f.kind = "json" THEN f.data
    ELSE <<>>      \* FileNotFoundError / JSONDecodeError: return {}

\* faulty variant: only the two bucket maps are written, the history is left out
save_habit_data_buckets_only(d) == JsonDump(SelectSeq(d, LAMBDA item : item[1] # "history"))

save_habit_data(d) == JsonDump(d)

Uncompleted(d) == DictGetOr(d, "uncompleted_habits", <<>>)
Completed(d) == DictGetOr(d, "completed_habits", <<>>)
History(d) == DictGetOr(d, "history", <<>>)

(***************************************************************************)
(* The operations as functions of the document, the file and the clock.    *)
(* Each yields the document and file it leaves, what it reported and how   *)
(* many times it read the clock.                                           *)
(***************************************************************************)
Ret(d, f, outcome, ticks) == [data |-> d, file |-> f, outcome |-> outcome, ticks |-> ticks]

\* faulty variant: the new habit is inserted at the head of the bucket
add_uncompleted_habit_at_head(d, f, now, period, task, time) ==
    IF DictHas(Uncompleted(d), period)
    THEN LET d1 == DictSetIn(d, "uncompleted_habits", period,
                        <<<<task, time>>>> \o DictGet(Uncompleted(d), period))
             fresh == ~DictHas(History(d1), task)
             d2 == IF fresh
                   THEN DictSetIn(d1, "history", task,
                            [created |-> StrNow(now), completed |-> <<>>, removed |-> Null])
                   ELSE d1
         IN  Ret(d2, save_habit_data(d2), "ok", IF fresh THEN 1 ELSE 0)
    ELSE Ret(d, f, "invalid_period", 0)

\* faulty variant: the habit is added and saved without a history record
add_uncompleted_habit_unlogged(d, f, now, period, task, time) ==
    IF DictHas(Uncompleted(d), period)
    THEN LET d1 == DictSetIn(d, "uncompleted_habits", period,
                        Append(DictGet(Uncompleted(d), period), <<task, time>>))
         IN  Ret(d1, save_habit_data(d1), "ok", 0)
    ELSE Ret(d, f, "invalid_period", 0)

\* faulty variant: a history record whose created is null gets the creation time
add_uncompleted_habit_stamps_null(d, f, now, period, task, time) ==
    IF DictHas(Uncompleted(d), period)
    THEN LET d1 == DictSetIn(d, "uncompleted_habits", period,
                        Append(DictGet(Uncompleted(d), period), <<task, time>>))
             fresh == ~DictHas(History(d1), task)
             d2 == IF fresh
                   THEN DictSetIn(d1, "history", task,
                            [created |-> StrNow(now), completed |-> <<>>, removed |-> Null])
                   ELSE IF DictGet(History(d1), task).created = Null
                   THEN DictSetIn(d1, "history", task,
                            [DictGet(History(d1), task) EXCEPT !.created = StrNow(now)])
                   ELSE d1
         IN  Ret(d2, save_habit_data(d2), "ok", 1)
    ELSE Ret(d, f, "invalid_period", 0)

add_uncompleted_habit(d, f, now, period, task, time) ==
    IF DictHas(Uncompleted(d), period)
    THEN LET d1 == DictSetIn(d, "uncompleted_habits", period,
                        Append(DictGet(Uncompleted(d), period), <<task, time>>))
             fresh == ~DictHas(History(d1), task)
             d2 == IF fresh
                   THEN DictSetIn(d1, "history", task,
                            [created |-> StrNow(now), completed |-> <<>>, removed |-> Null])
                   ELSE d1
         IN  Ret(d2, save_habit_data(d2), "ok", IF fresh THEN 1 ELSE 0)
    ELSE Ret(d, f, "invalid_period", 0)

\* faulty variant: every habit named task is dropped, not only the first
remove_uncompleted_habit_every_match(d, f, now, period, task) ==
    IF DictHas(Uncompleted(d), period)
    THEN LET bucket == DictGet(Uncompleted(d), period)
             i == FirstMatch(bucket, task)
         IN  IF i > 0
             THEN LET d1 == DictSetIn(d, "uncompleted_habits", period,
                                SelectSeq(bucket, LAMBDA h : h[1] # task))
                      d2 == IF DictHas(History(d1), task)
                            THEN DictSetIn(d1, "history", task,
                                    [DictGet(History(d1), task) EXCEPT !.removed = StrNow(now)])
                            ELSE DictSetIn(d1, "history", task,
                                    [created |-> Null, completed |-> <<>>,
                                     removed |-> StrNow(now)])
                  IN  Ret(d2, save_habit_data(d2), "ok", 1)
             ELSE Ret(d, f, "not_found", 0)
    ELSE Ret(d, f, "invalid_period", 0)

remove_uncompleted_habit(d, f, now, period, task) ==
    IF DictHas(Uncompleted(d), period)
    THEN LET bucket == DictGet(Uncompleted(d), period)
             i == FirstMatch(bucket, task)
         IN  IF i > 0
             THEN LET d1 == DictSetIn(d, "uncompleted_habits", period,
                                ListRemove(bucket, bucket[i]))
                      d2 == IF DictHas(History(d1), task)
                            THEN DictSetIn(d1, "history", task,
                                    [DictGet(History(d1), task) EXCEPT !.removed = StrNow(now)])
                            ELSE DictSetIn(d1, "history", task,
                                    [created |-> Null, completed |-> <<>>,
                                     removed |-> StrNow(now)])
                  IN  Ret(d2, save_habit_data(d2), "ok", 1)
             ELSE Ret(d, f, "not_found", 0)
    ELSE Ret(d, f, "invalid_period", 0)

\* faulty variant: the habit is taken out of uncompleted_habits whatever its period
move_to_completed_always_removes(d, f, now, period, task) ==
    IF DictHas(Uncompleted(d), period) /\ DictHas(Completed(d), period)
    THEN LET bucket == DictGet(Uncompleted(d), period)
             i == FirstMatch(bucket, task)
             completion_time == StrNow(now)
         IN  IF i > 0
             THEN LET d1 == DictSetIn(d, "completed_habits", period,
                                Append(DictGet(Completed(d), period),
                                       <<task, completion_time>>))
                      d2 == IF DictHas(History(d1), task)
                            THEN DictSetIn(d1, "history", task,
                                    [DictGet(History(d1), task) EXCEPT
                                        !.completed = Append(@, completion_time)])
                            ELSE DictSetIn(d1, "history", task,
                                    [created |-> Null, completed |-> <<completion_time>>,
                                     removed |-> Null])
                      d3 == IF TRUE
                            THEN DictSetIn(d2, "uncompleted_habits", period,
                                    ListRemove(bucket, bucket[i]))
                            ELSE d2
                  IN  Ret(d3, save_habit_data(d3), "ok", 1)
             ELSE Ret(d, f, "not_found", 0)
    ELSE Ret(d, f, "invalid_period", 0)

\* faulty variant: the once-off test compares with "once-off", which no period equals
move_to_completed_never_removes(d, f, now, period, task) ==
    IF DictHas(Uncompleted(d), period) /\ DictHas(Completed(d), period)
    THEN LET bucket == DictGet(Uncompleted(d), period)
             i == FirstMatch(bucket, task)
             completion_time == StrNow(now)
         IN  IF i > 0
             THEN LET d1 == DictSetIn(d, "completed_habits", period,
                                Append(DictGet(Completed(d), period),
                                       <<task, completion_time>>))
                      d2 == IF DictHas(History(d1), task)
                            THEN DictSetIn(d1, "history", task,
                                    [DictGet(History(d1), task) EXCEPT
                                        !.completed = Append(@, completion_time)])
                            ELSE DictSetIn(d1, "history", task,
                                    [created |-> Null, completed |-> <<completion_time>>,
                                     removed |-> Null])
                      d3 == IF period = "once-off"
                            THEN DictSetIn(d2, "uncompleted_habits", period,
                                    ListRemove(bucket, bucket[i]))
                            ELSE d2
                  IN  Ret(d3, save_habit_data(d3), "ok", 1)
             ELSE Ret(d, f, "not_found", 0)
    ELSE Ret(d, f, "invalid_period", 0)

move_to_completed(d, f, now, period, task) ==
    IF DictHas(Uncompleted(d), period) /\ DictHas(Completed(d), period)
    THEN LET bucket == DictGet(Uncompleted(d), period)
             i == FirstMatch(bucket, task)
             completion_time == StrNow(now)
         IN  IF i > 0
             THEN LET d1 == DictSetIn(d, "completed_habits", period,
                                Append(DictGet(Completed(d), period),
                                       <<task, completion_time>>))
                      d2 == IF DictHas(History(d1), task)
                            THEN DictSetIn(d1, "history", task,
                                    [DictGet(History(d1), task) EXCEPT
                                        !.completed = Append(@, completion_time)])
                            ELSE DictSetIn(d1, "history", task,
                                    [created |-> Null, completed |-> <<completion_time>>,
                                     removed |-> Null])
                      d3 == IF period = "once_off"
                            THEN DictSetIn(d2, "uncompleted_habits", period,
                                    ListRemove(bucket, bucket[i]))
                            ELSE d2
                  IN  Ret(d3, save_habit_data(d3), "ok", 1)
             ELSE Ret(d, f, "not_found", 0)
    ELSE Ret(d, f, "invalid_period", 0)

\* faulty variant: the record is appended and saved without the history entry
add_completed_habit_unlogged(d, f, now, period, task, completion_time) ==
    IF DictHas(Completed(d), period)
    THEN LET d1 == DictSetIn(d, "completed_habits", period,
                        Append(DictGet(Completed(d), period), <<task, completion_time>>))
         IN  Ret(d1, save_habit_data(d1), "ok", 0)
    ELSE Ret(d, f, "invalid_period", 0)

\* faulty variant: a once_off habit found in the uncompleted bucket is taken out of it
add_completed_habit_moves(d, f, now, period, task, completion_time) ==
    IF DictHas(Completed(d), period)
    THEN LET d1 == DictSetIn(d, "completed_habits", period,
                        Append(DictGet(Completed(d), period), <<task, completion_time>>))
             d2 == IF DictHas(History(d1), task)
                   THEN DictSetIn(d1, "history", task,
                            [DictGet(History(d1), task) EXCEPT
                                !.completed = Append(@, completion_time)])
                   ELSE DictSetIn(d1, "history", task,
                            [created |-> Null, completed |-> <<completion_time>>,
                             removed |-> Null])
             bucket == DictGetOr(Uncompleted(d), period, <<>>)
             i == FirstMatch(bucket, task)
             d3 == IF period = "once_off" /\ i > 0
                   THEN DictSetIn(d2, "uncompleted_habits", period, RemoveAt(bucket, i))
                   ELSE d2
         IN  Ret(d3, save_habit_data(d3), "ok", 0)
    ELSE Ret(d, f, "invalid_period", 0)

add_completed_habit(d, f, now, period, task, completion_time) ==
    IF DictHas(Completed(d), period)
    THEN LET d1 == DictSetIn(d, "completed_habits", period,
                        Append(DictGet(Completed(d), period), <<task, completion_time>>))
             d2 == IF DictHas(History(d1), task)
                   THEN DictSetIn(d1, "history", task,
                            [DictGet(History(d1), task) EXCEPT
                                !.completed = Append(@, completion_time)])
                   ELSE DictSetIn(d1, "history", task,
                            [created |-> Null, completed |-> <<completion_time>>,
                             removed |-> Null])
         IN  Ret(d2, save_habit_data(d2), "ok", 0)
    ELSE Ret(d, f, "invalid_period", 0)

\* faulty variant: the removed completion is also struck from the history
remove_completed_habit_retracts(d, f, now, period, task) ==
    IF DictHas(Completed(d), period)
    THEN LET bucket == DictGet(Completed(d), period)
             i == FirstMatch(bucket, task)
             logged(d0) ==
                IF DictHas(History(d0), task)
                THEN DictSetIn(d0, "history", task,
                        [DictGet(History(d0), task) EXCEPT
                            !.removed = StrNow(now),
                            !.completed = SelectSeq(@, LAMBDA ts : ts # bucket[i][2])])
                ELSE DictSetIn(d0, "history", task,
                        [created |-> Null, completed |-> <<>>, removed |-> StrNow(now)])
         IN  IF i > 0
             THEN LET d2 == logged(DictSetIn(d, "completed_habits", period,
                                        ListRemove(bucket, bucket[i])))
                  IN  Ret(d2, save_habit_data(d2), "ok", 1)
             ELSE Ret(d, f, "not_found", 0)
    ELSE Ret(d, f, "invalid_period", 0)

\* faulty variant: the removal is logged and saved before the search has found the habit
remove_completed_habit_logs_first(d, f, now, period, task) ==
    IF DictHas(Completed(d), period)
    THEN LET bucket == DictGet(Completed(d), period)
             i == FirstMatch(bucket, task)
             logged(d0) ==
                IF DictHas(History(d0), task)
                THEN DictSetIn(d0, "history", task,
                        [DictGet(History(d0), task) EXCEPT
                            !.removed = StrNow(now),
                            !.completed = @])
                ELSE DictSetIn(d0, "history", task,
                        [created |-> Null, completed |-> <<>>, removed |-> StrNow(now)])
         IN  IF i > 0
             THEN LET d2 == logged(DictSetIn(d, "completed_habits", period,
                                        ListRemove(bucket, bucket[i])))
                  IN  Ret(d2, save_habit_data(d2), "ok", 1)
             ELSE Ret(logged(d), save_habit_data(logged(d)), "not_found", 1)
    ELSE Ret(d, f, "invalid_period", 0)

\* faulty variant: every record named task is dropped, not only the first
remove_completed_habit_every_match(d, f, now, period, task) ==
    IF DictHas(Completed(d), period)
    THEN LET bucket == DictGet(Completed(d), period)
             i == FirstMatch(bucket, task)
         IN  IF i > 0
             THEN LET d1 == DictSetIn(d, "completed_habits", period,
                                SelectSeq(bucket, LAMBDA habit : habit[1] # task))
                      d2 == IF DictHas(History(d1), task)
                            THEN DictSetIn(d1, "history", task,
                                    [DictGet(History(d1), task) EXCEPT !.removed = StrNow(now)])
                            ELSE DictSetIn(d1, "history", task,
                                    [created |-> Null, completed |-> <<>>,
                                     removed |-> StrNow(now)])
                  IN  Ret(d2, save_habit_data(d2), "ok", 1)
             ELSE Ret(d, f, "not_found", 0)
    ELSE Ret(d, f, "invalid_period", 0)

remove_completed_habit(d, f, now, period, task) ==
    IF DictHas(Completed(d), period)
    THEN LET bucket == DictGet(Completed(d), period)
             i == FirstMatch(bucket, task)
         IN  IF i > 0
             THEN LET d1 == DictSetIn(d, "completed_habits", period,
                                ListRemove(bucket, bucket[i]))
                      d2 == IF DictHas(History(d1), task)
                            THEN DictSetIn(d1, "history", task,
                                    [DictGet(History(d1), task) EXCEPT !.removed = StrNow(now)])
                            ELSE DictSetIn(d1, "history", task,
                                    [created |-> Null, completed |-> <<>>,
                                     removed |-> StrNow(now)])
                  IN  Ret(d2, save_habit_data(d2), "ok", 1)
             ELSE Ret(d, f, "not_found", 0)
    ELSE Ret(d, f, "invalid_period", 0)

\* faulty variant: the edit is made in memory and never saved
edit_uncompleted_habit_unsaved(d, f, now, period, old_task, new_task, new_time) ==
    IF DictHas(Uncompleted(d), period)
    THEN LET bucket == DictGet(Uncompleted(d), period)
             i == FirstMatch(bucket, old_task)
         IN  IF i > 0
             THEN LET h0 == IF new_task # NoStr THEN new_task ELSE bucket[i][1]
                      h1 == IF new_time # NoStr THEN new_time ELSE bucket[i][2]
                      d1 == DictSetIn(d, "uncompleted_habits", period,
                                [bucket EXCEPT ![i] = <<h0, h1>>])
                  IN  Ret(d1, f, "ok", 0)
             ELSE Ret(d, f, "not_found", 0)
    ELSE Ret(d, f, "invalid_period", 0)

\* faulty variant: every habit named old_task is edited, not only the first
edit_uncompleted_habit_every_match(d, f, now, period, old_task, new_task, new_time) ==
    IF DictHas(Uncompleted(d), period)
    THEN LET bucket == DictGet(Uncompleted(d), period)
             i == FirstMatch(bucket, old_task)
             edited(habit) ==
                IF habit[1] = old_task
                THEN <<IF new_task # NoStr THEN new_task ELSE habit[1],
                       IF new_time # NoStr THEN new_time ELSE habit[2]>>
                ELSE habit
         IN  IF i > 0
             THEN LET d1 == DictSetIn(d, "uncompleted_habits", period,
                                [k \in 1..Len(bucket) |-> edited(bucket[k])])
                  IN  Ret(d1, save_habit_data(d1), "ok", 0)
             ELSE Ret(d, f, "not_found", 0)
    ELSE Ret(d, f, "invalid_period", 0)

\* `if new_task:` / `if new_time:` skip None and the empty string alike (NoStr)
edit_uncompleted_habit(d, f, now, period, old_task, new_task, new_time) ==
    IF DictHas(Uncompleted(d), period)
    THEN LET bucket == DictGet(Uncompleted(d), period)
             i == FirstMatch(bucket, old_task)
         IN  IF i > 0
             THEN LET h0 == IF new_task # NoStr THEN new_task ELSE bucket[i][1]
                      h1 == IF new_time # NoStr THEN new_time ELSE bucket[i][2]
                      d1 == DictSetIn(d, "uncompleted_habits", period,
                                [bucket EXCEPT ![i] = <<h0, h1>>])
                  IN  Ret(d1, save_habit_data(d1), "ok", 0)
             ELSE Ret(d, f, "not_found", 0)
    ELSE Ret(d, f, "invalid_period", 0)

(***************************************************************************)
(* Strings, as the sequences of their characters, and the datetime calls   *)
(* get_tasks_for_day makes on them.                                        *)
(***************************************************************************)
Chars(s) ==
    CASE s = "07:00" -> <<"0", "7", ":", "0", "0">>
      [] s = "Monday 09:00" -> <<"M", "o", "n", "d", "a", "y", " ", "0", "9", ":", "0", "0">>
      [] s = "Friday 10:00" -> <<"F", "r", "i", "d", "a", "y", " ", "1", "0", ":", "0", "0">>
      [] s = "05 09:00" -> <<"0", "5", " ", "0", "9", ":", "0", "0">>
      [] s = "15 11:00" -> <<"1", "5", " ", "1", "1", ":", "0", "0">>
      [] s = "01-05 10:00" -> <<"0", "1", "-", "0", "5", " ", "1", "0", ":", "0", "0">>
      [] s = "12-31 10:00" -> <<"1", "2", "-", "3", "1", " ", "1", "0", ":", "0", "0">>
      [] s = "2024-01-05 17:00" -> <<"2", "0", "2", "4", "-", "0", "1", "-", "0", "5", " ", "1", "7", ":", "0", "0">>
      [] s = "2024-1-5 17:00" -> <<"2", "0", "2", "4", "-", "1", "-", "5", " ", "1", "7", ":", "0", "0">>
      [] s = "2024-01-05" -> <<"2", "0", "2", "4", "-", "0", "1", "-", "0", "5">>
      [] s = "2024-1-5" -> <<"2", "0", "2", "4", "-", "1", "-", "5">>
      [] s = "2024-01-08" -> <<"2", "0", "2", "4", "-", "0", "1", "-", "0", "8">>
      [] s = "2024-02-30" -> <<"2", "0", "2", "4", "-", "0", "2", "-", "3", "0">>
      [] s = "05/01/2024" -> <<"0", "5", "/", "0", "1", "/", "2", "0", "2", "4">>
      [] s = "Monday" -> <<"M", "o", "n", "d", "a", "y">>
      [] s = "Tuesday" -> <<"T", "u", "e", "s", "d", "a", "y">>
      [] s = "Wednesday" -> <<"W", "e", "d", "n", "e", "s", "d", "a", "y">>
      [] s = "Thursday" -> <<"T", "h", "u", "r", "s", "d", "a", "y">>
      [] s = "Friday" -> <<"F", "r", "i", "d", "a", "y">>
      [] s = "Saturday" -> <<"S", "a", "t", "u", "r", "d", "a", "y">>
      [] s = "Sunday" -> <<"S", "u", "n", "d", "a", "y">>

Digits == <<"0", "1", "2", "3", "4", "5", "6", "7", "8", "9">>
IsDigit(c) == \E i \in 1..Len(Digits) : Digits[i] = c
DigitVal(c) == (CHOOSE i \in 1..Len(Digits) : Digits[i] = c) - 1
AllDigits(cs) == \A i \in 1..Len(cs) : IsDigit(cs[i])
RECURSIVE Num(_)
Num(cs) == IF cs = <<>> THEN 0
           ELSE 10 * Num(SubSeq(cs, 1, Len(cs) - 1)) + DigitVal(cs[Len(cs)])

StartsWith(s, prefix) == Len(prefix) <= Len(s) /\ SubSeq(s, 1, Len(prefix)) = prefix
Contains(s, sub) == \E i \in 0..(Len(s) - Len(sub)) : SubSeq(s, i + 1, i + Len(sub)) = sub

IsLeap(y) == y % 4 = 0 /\ (y % 100 # 0 \/ y % 400 = 0)
DaysInMonth(y, m) ==
    IF m = 2 THEN (IF IsLeap(y) THEN 29 ELSE 28)
    ELSE IF m \in {4, 6, 9, 11} THEN 30 ELSE 31
RECURSIVE DaysBeforeMonth(_, _)
DaysBeforeMonth(y, m) == IF m = 1 THEN 0 ELSE DaysBeforeMonth(y, m - 1) + DaysInMonth(y, m - 1)
ToOrdinal(y, m, d) ==
    (y - 1) * 365 + ((y - 1) \div 4) - ((y - 1) \div 100) + ((y - 1) \div 400)
        + DaysBeforeMonth(y, m) + d

NoDate == [ok |-> FALSE, y |-> 0, m |-> 0, d |-> 0]

\* datetime.strptime(date, "%Y-%m-%d"): the year is four digits, the month one or two
\* digits in 1..12, the day one or two digits (or a space and a digit) in 1..31 and
\* within the month; anything else is a ValueError (NoDate)
strptime(cs) ==
    LET dashes == {i \in 1..Len(cs) : cs[i] = "-"}
    IN  IF Cardinality(dashes) # 2 THEN NoDate
        ELSE LET i1 == CHOOSE i \in dashes : \A j \in dashes : i <= j
                 i2 == CHOOSE i \in dashes : \A j \in dashes : j <= i
                 Y == SubSeq(cs, 1, i1 - 1)
                 M == SubSeq(cs, i1 + 1, i2 - 1)
                 D0 == SubSeq(cs, i2 + 1, Len(cs))
                 D == IF Len(D0) = 2 /\ D0[1] = " " THEN SubSeq(D0, 2, 2) ELSE D0
                 shaped == /\ Len(Y) = 4 /\ AllDigits(Y)
                           /\ Len(M) \in {1, 2} /\ AllDigits(M)
                           /\ Len(D) \in {1, 2} /\ AllDigits(D)
                           /\ (Len(D0) # Len(D) => D[1] # "0")
             IN  IF shaped /\ Num(Y) >= 1 /\ Num(M) \in 1..12
                           /\ Num(D) >= 1 /\ Num(D) <= DaysInMonth(Num(Y), Num(M))
                 THEN [ok |-> TRUE, y |-> Num(Y), m |-> Num(M), d |-> Num(D)]
                 ELSE NoDate

TwoDigits(n) == <<Digits[(n \div 10) + 1], Digits[(n % 10) + 1]>>
FourDigits(n) == TwoDigits(n \div 100) \o TwoDigits(n % 100)
WeekdayNames == <<"Monday", "Tuesday", "Wednesday", "Thursday", "Friday", "Saturday", "Sunday">>
\* target_date.strftime("%A"), "%d", "%m-%d"
StrfWeekday(dt) == Chars(WeekdayNames[((ToOrdinal(dt.y, dt.m, dt.d) + 6) % 7) + 1])
StrfDay(dt) == TwoDigits(dt.d)
StrfMonthDay(dt) == TwoDigits(dt.m) \o <<"-">> \o TwoDigits(dt.d)

Lines(label, habits) == [i \in 1..Len(habits) |-> <<label, habits[i][1], habits[i][2]>>]

\* faulty variant: the ValueError branch prints and falls through to the daily habits
get_tasks_for_day_falls_through(d, f, date) ==
    LET target_date == strptime(Chars(date))
        bucket(p) == DictGetOr(Uncompleted(d), p, <<>>)
        weekly(h) == Contains(Chars(h[2]), StrfWeekday(target_date))
        monthly(h) == StartsWith(Chars(h[2]), StrfDay(target_date))
        yearly(h) == StartsWith(Chars(h[2]), StrfMonthDay(target_date))
        once_off(h) == StartsWith(Chars(h[2]), Chars(date))
    IN  IF ~target_date.ok
        THEN [data |-> d, file |-> f, outcome |-> "invalid_date",
              tasks |-> Lines("Daily", bucket("daily"))]
        ELSE [data |-> d, file |-> f, outcome |-> "ok",
              tasks |-> Lines("Daily", bucket("daily"))
                        \o Lines("Weekly", SelectSeq(bucket("weekly"), weekly))
                        \o Lines("Monthly", SelectSeq(bucket("monthly"), monthly))
                        \o Lines("Yearly", SelectSeq(bucket("yearly"), yearly))
                        \o Lines("Once-off", SelectSeq(bucket("once_off"), once_off))]

get_tasks_for_day(d, f, date) ==
    LET target_date == strptime(Chars(date))
        bucket(p) == DictGetOr(Uncompleted(d), p, <<>>)
        weekly(h) == Contains(Chars(h[2]), StrfWeekday(target_date))
        monthly(h) == StartsWith(Chars(h[2]), StrfDay(target_date))
        yearly(h) == StartsWith(Chars(h[2]), StrfMonthDay(target_date))
        once_off(h) == StartsWith(Chars(h[2]), Chars(date))
    IN  IF ~target_date.ok
        THEN [data |-> d, file |-> f, outcome |-> "invalid_date", tasks |-> <<>>]
        ELSE [data |-> d, file |-> f, outcome |-> "ok",
              tasks |-> Lines("Daily", bucket("daily"))
                        \o Lines("Weekly", SelectSeq(bucket("weekly"), weekly))
                        \o Lines("Monthly", SelectSeq(bucket("monthly"), monthly))
                        \o Lines("Yearly", SelectSeq(bucket("yearly"), yearly))
                        \o Lines("Once-off", SelectSeq(bucket("once_off"), once_off))]

(***************************************************************************)
(* list_all_habits                                                         *)
(***************************************************************************)
\* str.capitalize() of the period keys: first letter upper case, the rest lower case
Capitalize(period) ==
    CASE period = "daily" -> "Daily"
      [] period = "weekly" -> "Weekly"
      [] period = "monthly" -> "Monthly"
      [] period = "yearly" -> "Yearly"
      [] period = "once_off" -> "Once_off"
      [] period = "hourly" -> "Hourly"

\* f"{state} {period.capitalize()}: {habit[0]} at {habit[1]}" for each habit of a bucket
ListLines(state, period, habits) ==
    [i \in 1..Len(habits) |-> <<state, Capitalize(period), habits[i][1], habits[i][2]>>]

\* the lines of the buckets of one dict, in the order of its .items()
RECURSIVE ItemLines(_, _)
ItemLines(state, buckets) ==
    IF buckets = <<>> THEN <<>>
    ELSE ListLines(state, buckets[1][1], buckets[1][2]) \o ItemLines(state, Tail(buckets))

list_all_habits(d) ==
    ItemLines("Uncompleted", Uncompleted(d)) \o ItemLines("Completed", Completed(d))

(***************************************************************************)
(* analyze_habits                                                          *)
(***************************************************************************)
\* the dict analyze_habits starts from
EmptyAnalysis ==
    [longest_streak |-> [habit |-> NoneHabit, streak_length |-> 0],
     current_daily_habits |-> <<>>,
     most_challenging |-> [habit |-> NoneHabit, missed_count |-> 0]]

\* clock readings per calendar day
TicksPerDay == 2

\* datetime.strptime(date, "%Y-%m-%d %H:%M:%S.%f") accepts only the microsecond form
ParsesMicro(ts) == ts.form = "micro"

\* .date() of a parsed timestamp, as a day number
DateOf(ts) == ts.tick \div TicksPerDay

RECURSIVE InsertSorted(_, _)
InsertSorted(sorted, x) ==
    IF sorted = <<>> THEN <<x>>
    ELSE IF x < Head(sorted) THEN <<x>> \o sorted
    ELSE <<Head(sorted)>> \o InsertSorted(Tail(sorted), x)

\* list.sort()
RECURSIVE SortDates(_)
SortDates(dates) ==
    IF dates = <<>> THEN <<>>
    ELSE InsertSorted(SortDates(SubSeq(dates, 1, Len(dates) - 1)), dates[Len(dates)])

\* for date in completed_dates: ...; last_date is <<>> for None and <<date>> otherwise
RECURSIVE StreakLoop(_, _, _, _)
StreakLoop(completed_dates, last_date, current_streak, max_streak) ==
    IF completed_dates = <<>> THEN max_streak
    ELSE LET date == Head(completed_dates)
             current == IF last_date # <<>> /\ date = last_date[1] + 1
                        THEN current_streak + 1
                        ELSE 1
         IN  StreakLoop(Tail(completed_dates), <<date>>, current,
                        IF current > max_streak THEN current ELSE max_streak)

\* max_streak of one task's completion timestamps
MaxStreak(completed) ==
    StreakLoop(SortDates([i \in 1..Len(completed) |-> DateOf(completed[i])]), <<>>, 0, 0)

\* the state of the loop over history: the result so far and the locals
AnalysisStart ==
    [outcome |-> "ok", analysis |-> EmptyAnalysis, longest_streak |-> 0,
     most_challenging_count |-> 0, habit_streaks |-> <<>>]

\* if max_streak > longest_streak: ...
LongestStreakStep(acc, task, max_streak) ==
    IF max_streak > acc.longest_streak
    THEN [acc EXCEPT !.longest_streak = max_streak,
                     !.analysis.longest_streak =
                         [habit |-> task, streak_length |-> max_streak]]
    ELSE acc

\* faulty variant: a tie in the number of completions replaces the holder
MostChallengingStep_on_ties(acc, task, missed_count) ==
    IF missed_count >= acc.most_challenging_count /\ missed_count > 0
    THEN [acc EXCEPT !.most_challenging_count = missed_count,
                     !.analysis.most_challenging =
                         [habit |-> task, missed_count |-> missed_count]]
    ELSE acc

\* if missed_count > most_challenging_count: ...
MostChallengingStep(acc, task, missed_count) ==
    IF missed_count > acc.most_challenging_count
    THEN [acc EXCEPT !.most_challenging_count = missed_count,
                     !.analysis.most_challenging =
                         [habit |-> task, missed_count |-> missed_count]]
    ELSE acc

\* faulty variant: a timestamp strptime rejects is skipped and the analysis goes on
RECURSIVE HistoryLoop_skipping(_, _)
HistoryLoop_skipping(items, acc) ==
    IF items = <<>> THEN acc
    ELSE LET task == items[1][1]
             completed == SelectSeq(items[1][2].completed, ParsesMicro)
             max_streak == MaxStreak(completed)
             a1 == [acc EXCEPT !.habit_streaks = DictSet(@, task, max_streak)]
             a2 == LongestStreakStep(a1, task, max_streak)
             a3 == MostChallengingStep(a2, task, Len(completed))
         IN  HistoryLoop_skipping(Tail(items), a3)

\* for task, details in history.items(): ...; strptime raises ValueError on a timestamp
\* that is not in the microsecond form and the loop is left with nothing returned
RECURSIVE HistoryLoop(_, _)
HistoryLoop(items, acc) ==
    IF items = <<>> THEN acc
    ELSE LET task == items[1][1]
             completed == items[1][2].completed
         IN  IF \E i \in 1..Len(completed) : ~ParsesMicro(completed[i])
             THEN [acc EXCEPT !.outcome = "ValueError"]
             ELSE LET max_streak == MaxStreak(completed)
                      a1 == [acc EXCEPT !.habit_streaks = DictSet(@, task, max_streak)]
                      a2 == LongestStreakStep(a1, task, max_streak)
                      a3 == MostChallengingStep(a2, task, Len(completed))
                  IN  HistoryLoop(Tail(items), a3)

\* f"{habit[0]} at {habit[1]}"
DailyLine(habit) == <<habit[1], "at", habit[2]>>

\* faulty variant: a daily habit that has a completion in the history is left out
CurrentDailyHabits_pending_only(d) ==
    LET daily == DictGetOr(Uncompleted(d), "daily", <<>>)
        pending == SelectSeq(daily, LAMBDA habit :
                       ~DictHas(History(d), habit[1])
                       \/ DictGet(History(d), habit[1]).completed = <<>>)
    IN  [i \in 1..Len(pending) |-> DailyLine(pending[i])]

\* the loop over uncompleted_habits["daily"]
CurrentDailyHabits(d) ==
    LET current_daily_habits == DictGetOr(Uncompleted(d), "daily", <<>>)
    IN  [i \in 1..Len(current_daily_habits) |-> DailyLine(current_daily_habits[i])]

analyze_habits(d) ==
    LET acc == HistoryLoop(History(d), AnalysisStart)
    IN  IF acc.outcome = "ok"
        THEN [acc EXCEPT !.analysis.current_daily_habits = CurrentDailyHabits(d)]
        ELSE acc

(***************************************************************************)
(* State machine                                                           *)
(***************************************************************************)
Call(op, period, task, time, stamp, new_task, new_time, date, outcome) ==
    [op |-> op, period |-> period, task |-> task, time |-> time, stamp |-> stamp,
     new_task |-> new_task, new_time |-> new_time, date |-> date, outcome |-> outcome,
     session |-> 1]

NoCall == Call("none", "", "", "", Null, "", "", "", "")

\* the documents a tracker may be constructed over
WellFormedDocs == {JsonDump(empty_data)}

Init ==
    /\ file \in {MissingFile} \cup WellFormedDocs
    /\ habit_data = <<>>
    /\ clock = 1
    /\ last = NoCall
    /\ preceding = NoCall
    /\ nops = 0
    /\ tasks_for_day = <<>>
    /\ all_habits = <<>>
    /\ analysis = EmptyAnalysis
    /\ habit_streaks = <<>>
    /\ habit_data2 = <<>>

\* EditHabits.__init__
Construct ==
    /\ last.op = "none"
    /\ LET created == file.kind = "missing"
           f1 == IF created THEN create_empty_habits_file(file) ELSE file
       IN  /\ file' = f1
           /\ habit_data' = load_habit_data(f1)
           /\ last' = Call("__init__", "", "", "", Null, "", "", "",
                           IF created THEN "created"
                           ELSE IF f1.kind = "json" THEN "loaded" ELSE "decode_error")
    /\ preceding' = NoCall
    /\ UNCHANGED <<clock, nops, tasks_for_day, all_habits, analysis, habit_streaks, habit_data2>>

Returns(r, call) ==
    /\ last.op # "none"
    /\ nops < MaxOps
    /\ habit_data' = r.data
    /\ file' = r.file
    /\ clock' = clock + r.ticks
    /\ last' = [call EXCEPT !.outcome = r.outcome]
    /\ preceding' = IF last.op = "add_uncompleted_habit" /\ last.outcome = "ok"
                    THEN last ELSE NoCall
    /\ nops' = nops + 1
    /\ UNCHANGED <<tasks_for_day, all_habits, analysis, habit_streaks, habit_data2>>

AddUncompleted(period, task, time) ==
    Returns(add_uncompleted_habit(habit_data, file, clock, period, task, time),
            Call("add_uncompleted_habit", period, task, time, Null, "", "", "", ""))

RemoveUncompleted(period, task) ==
    Returns(remove_uncompleted_habit(habit_data, file, clock, period, task),
            Call("remove_uncompleted_habit", period, task, "", Null, "", "", "", ""))

MoveToCompleted(period, task) ==
    Returns(move_to_completed(habit_data, file, clock, period, task),
            Call("move_to_completed", period, task, "", Null, "", "", "", ""))

AddCompleted(period, task, completion_time) ==
    Returns(add_completed_habit(habit_data, file, clock, period, task, completion_time),
            Call("add_completed_habit", period, task, "", completion_time, "", "", "", ""))

RemoveCompleted(period, task) ==
    Returns(remove_completed_habit(habit_data, file, clock, period, task),
            Call("remove_completed_habit", period, task, "", Null, "", "", "", ""))

EditUncompleted(period, old_task, new_task, new_time) ==
    Returns(edit_uncompleted_habit(habit_data, file, clock, period, old_task, new_task, new_time),
            Call("edit_uncompleted_habit", period, old_task, "", Null, new_task, new_time, "", ""))

Next ==
    \/ Construct
    \/ \E p \in PeriodArgs, t \in Tasks, s \in Times : AddUncompleted(p, t, s)
    \/ \E p \in PeriodArgs, t \in Tasks : RemoveUncompleted(p, t)
    \/ \E p \in PeriodArgs, t \in Tasks : MoveToCompleted(p, t)
    \/ \E p \in PeriodArgs, t \in Tasks, c \in CompletionTimes : AddCompleted(p, t, c)
    \/ \E p \in PeriodArgs, t \in Tasks : RemoveCompleted(p, t)
    \/ \E p \in PeriodArgs, t \in Tasks, nt \in {NoStr, "Run"}, ns \in {NoStr, "07:00"} :
            EditUncompleted(p, t, nt, ns)

Spec == Init /\ [][Next]_vars

(***************************************************************************)
(* The tracker constructed over any file: absent, not JSON, or a document  *)
(* whose bucket maps carry another key or lack one of the five.            *)
(***************************************************************************)
ExtraBuckets == Append(EmptyBuckets, <<"hourly", <<>>>>)
LackBuckets == SelectSeq(EmptyBuckets, LAMBDA b : b[1] # "yearly")

ExtraDoc == JsonDump(<< <<"uncompleted_habits", ExtraBuckets>>,
                        <<"completed_habits", ExtraBuckets>>,
                        <<"history", <<>>>> >>)
LackDoc == JsonDump(<< <<"uncompleted_habits", LackBuckets>>,
                       <<"completed_habits", EmptyBuckets>>,
                       <<"history", <<>>>> >>)

InitDoc ==
    /\ file \in {MissingFile, CorruptFile, ExtraDoc, LackDoc} \cup WellFormedDocs
    /\ habit_data = <<>>
    /\ clock = 1
    /\ last = NoCall
    /\ preceding = NoCall
    /\ nops = 0
    /\ tasks_for_day = <<>>
    /\ all_habits = <<>>
    /\ analysis = EmptyAnalysis
    /\ habit_streaks = <<>>
    /\ habit_data2 = <<>>

SpecDoc == InitDoc /\ [][Next]_vars

(***************************************************************************)
(* get_tasks_for_day over trackers loaded from documents that hold habits  *)
(* in every period.                                                        *)
(***************************************************************************)
DueTimes(p) ==
    CASE p = "daily" -> <<"07:00", "07:00">>
      [] p = "weekly" -> <<"Monday 09:00", "Friday 10:00">>
      [] p = "monthly" -> <<"05 09:00", "15 11:00">>
      [] p = "yearly" -> <<"01-05 10:00", "12-31 10:00">>
      [] p = "once_off" -> <<"2024-01-05 17:00", "2024-1-5 17:00">>

DueBuckets(p) ==
    LET e1 == <<"Read", DueTimes(p)[1]>>
        e2 == <<"Run", DueTimes(p)[2]>>
    IN  {<<>>, <<e1>>, <<e1, e2>>, <<e2, e1>>}

DateArgs == {"2024-01-05", "2024-1-5", "2024-01-08", "2024-02-30", "05/01/2024"}

DueDocs ==
    {<< <<"uncompleted_habits",
          << <<"daily", b1>>, <<"weekly", b2>>, <<"monthly", b3>>,
             <<"yearly", b4>>, <<"once_off", b5>> >> >>,
        <<"completed_habits", EmptyBuckets>>,
        <<"history", <<>>>> >> :
     b1 \in DueBuckets("daily"), b2 \in DueBuckets("weekly"), b3 \in DueBuckets("monthly"),
     b4 \in DueBuckets("yearly"), b5 \in DueBuckets("once_off")}

InitDue ==
    /\ habit_data \in DueDocs
    /\ file = JsonDump(habit_data)
    /\ clock = 1
    /\ last = Call("__init__", "", "", "", Null, "", "", "", "loaded")
    /\ preceding = NoCall
    /\ nops = 0
    /\ tasks_for_day = <<>>
    /\ all_habits = <<>>
    /\ analysis = EmptyAnalysis
    /\ habit_streaks = <<>>
    /\ habit_data2 = <<>>

GetTasksForDay(date) ==
    LET r == get_tasks_for_day(habit_data, file, date)
    IN  /\ last.op # "none"
        /\ nops < MaxOps
        /\ habit_data' = r.data
        /\ file' = r.file
        /\ tasks_for_day' = r.tasks
        /\ last' = Call("get_tasks_for_day", "", "", "", Null, "", "", date, r.outcome)
        /\ preceding' = NoCall
        /\ nops' = nops + 1
        /\ UNCHANGED <<clock, all_habits, analysis, habit_streaks, habit_data2>>

NextDue ==
    /\ nops < MaxDueOps
    /\ \/ \E date \in DateArgs : GetTasksForDay(date)
       \/ \E p \in {"daily", "once_off"}, t \in Tasks : MoveToCompleted(p, t)

SpecDue == InitDue /\ [][NextDue]_vars

(***************************************************************************)
(* Listing: documents whose buckets are filled, with the period keys in    *)
(* the order create_empty_habits_file writes or in the reverse order.      *)
(***************************************************************************)
Reverse(s) == [i \in 1..Len(s) |-> s[Len(s) + 1 - i]]

ListBuckets(daily, monthly, once_off) ==
    << <<"daily", daily>>, <<"weekly", <<>>>>, <<"monthly", monthly>>,
       <<"yearly", <<>>>>, <<"once_off", once_off>> >>

ListDocs ==
    {JsonDump(<< <<"uncompleted_habits", IF rev THEN Reverse(ListBuckets(b1, b2, b3))
                                         ELSE ListBuckets(b1, b2, b3)>>,
                 <<"completed_habits", IF rev THEN Reverse(EmptyBuckets) ELSE EmptyBuckets>>,
                 <<"history", <<>>>> >>) :
     rev \in BOOLEAN,
     b1 \in {<<>>, << <<"Read", "07:00">> >>},
     b2 \in {<<>>, << <<"Run", "01 12:00">> >>},
     b3 \in {<<>>, << <<"Read", "2024-01-05 17:00">> >>}}

InitList ==
    /\ file \in ListDocs
    /\ habit_data = <<>>
    /\ clock = 1
    /\ last = NoCall
    /\ preceding = NoCall
    /\ nops = 0
    /\ tasks_for_day = <<>>
    /\ all_habits = <<>>
    /\ analysis = EmptyAnalysis
    /\ habit_streaks = <<>>
    /\ habit_data2 = <<>>

ListAllHabits ==
    /\ last.op # "none"
    /\ nops < MaxOps
    /\ all_habits' = list_all_habits(habit_data)
    /\ last' = Call("list_all_habits", "", "", "", Null, "", "", "", "ok")
    /\ preceding' = NoCall
    /\ nops' = nops + 1
    /\ UNCHANGED <<file, habit_data, clock, tasks_for_day, analysis, habit_streaks, habit_data2>>

NextList ==
    \/ Construct
    \/ ListAllHabits
    \/ \E p \in {"daily", "monthly", "once_off"}, t \in Tasks : MoveToCompleted(p, t)

SpecList == InitList /\ [][NextList]_vars

(***************************************************************************)
(* Round trip: well-formed documents written with any indentation are      *)
(* loaded by a new tracker and saved with no operation in between.         *)
(***************************************************************************)
Indents == {0, 2, 4}

TripDocs ==
    {[kind |-> "json", indent |-> n, data |-> f.data] :
     n \in Indents, f \in ListDocs \cup WellFormedDocs}

InitTrip ==
    /\ file \in TripDocs
    /\ habit_data = <<>>
    /\ clock = 1
    /\ last = NoCall
    /\ preceding = NoCall
    /\ nops = 0
    /\ tasks_for_day = <<>>
    /\ all_habits = <<>>
    /\ analysis = EmptyAnalysis
    /\ habit_streaks = <<>>
    /\ habit_data2 = <<>>

\* habit_tracker.save_habit_data() called on its own
SaveHabitData ==
    /\ last.op # "none"
    /\ nops < MaxTripOps
    /\ file' = save_habit_data(habit_data)
    /\ last' = Call("save_habit_data", "", "", "", Null, "", "", "", "ok")
    /\ preceding' = NoCall
    /\ nops' = nops + 1
    /\ UNCHANGED <<habit_data, clock, tasks_for_day, all_habits, analysis, habit_streaks, habit_data2>>

\* EditHabits(file_path) constructed again over the file as it is now
Reopen ==
    /\ last.op # "none"
    /\ nops < MaxTripOps
    /\ LET created == file.kind = "missing"
           f1 == IF created THEN create_empty_habits_file(file) ELSE file
       IN  /\ file' = f1
           /\ habit_data' = load_habit_data(f1)
           /\ last' = Call("__init__", "", "", "", Null, "", "", "",
                           IF created THEN "created"
                           ELSE IF f1.kind = "json" THEN "loaded" ELSE "decode_error")
    /\ preceding' = NoCall
    /\ nops' = nops + 1
    /\ UNCHANGED <<clock, tasks_for_day, all_habits, analysis, habit_streaks, habit_data2>>

NextTrip ==
    \/ Construct
    \/ SaveHabitData
    \/ Reopen

SpecTrip == InitTrip /\ [][NextTrip]_vars

(***************************************************************************)
(* Saving step by step: open(file_path, 'w') empties the file, json.dump   *)
(* writes it piece by piece, leaving the `with` block closes it.  open and *)
(* every write may raise OSError, which no method of the class catches.    *)
(***************************************************************************)
\* the file while json.dump has written the first k items of the document
TruncatedFile(d, k) == [kind |-> "partial", indent |-> 4, data |-> SubSeq(d, 1, k)]

\* faulty variant: the error is caught and the operation reports success
FailedWrite_swallowed(d, f) == [data |-> d, file |-> f, outcome |-> "ok"]

\* what an OSError raised in save_habit_data leaves: the registry d as the operation
\* changed it, the file f as the failure left it, the exception passed on to the caller
FailedWrite(d, f) == [data |-> d, file |-> f, outcome |-> "OSError"]

\* an operation runs up to its call of save_habit_data and opens the file, or returns
\* without saving
Begins(r, call) ==
    /\ last.op # "none"
    /\ last.outcome \notin {"writing", "OSError"}
    /\ nops < MaxSaveOps
    /\ IF r.outcome # "ok"
       THEN /\ habit_data' = r.data
            /\ file' = r.file
            /\ last' = [call EXCEPT !.outcome = r.outcome]
       ELSE \/ /\ habit_data' = r.data
               /\ file' = TruncatedFile(r.data, 0)
               /\ last' = [call EXCEPT !.outcome = "writing"]
            \/ LET x == FailedWrite(r.data, file)
               IN  /\ habit_data' = x.data
                   /\ file' = x.file
                   /\ last' = [call EXCEPT !.outcome = x.outcome]
    /\ clock' = clock + r.ticks
    /\ preceding' = NoCall
    /\ nops' = nops + 1
    /\ UNCHANGED <<tasks_for_day, all_habits, analysis, habit_streaks, habit_data2>>

\* json.dump writes the next item
Writes ==
    /\ last.outcome = "writing"
    /\ Len(file.data) < Len(habit_data)
    /\ file' = TruncatedFile(habit_data, Len(file.data) + 1)
    /\ UNCHANGED <<habit_data, clock, last, preceding, nops, tasks_for_day, all_habits,
                   analysis, habit_streaks, habit_data2>>

\* a write raises OSError
WriteFails ==
    /\ last.outcome = "writing"
    /\ LET x == FailedWrite(habit_data, file)
       IN  /\ habit_data' = x.data
           /\ file' = x.file
           /\ last' = [last EXCEPT !.outcome = x.outcome]
    /\ UNCHANGED <<clock, preceding, nops, tasks_for_day, all_habits, analysis, habit_streaks, habit_data2>>

\* the document is written in full, the file is closed and the operation returns
WriteEnds ==
    /\ last.outcome = "writing"
    /\ file' = save_habit_data(habit_data)
    /\ last' = [last EXCEPT !.outcome = "ok"]
    /\ UNCHANGED <<habit_data, clock, preceding, nops, tasks_for_day, all_habits,
                   analysis, habit_streaks, habit_data2>>

SavePeriods == {"daily", "once_off"}

NextSave ==
    \/ Construct
    \/ \E p \in SavePeriods, t \in Tasks, s \in Times :
            Begins(add_uncompleted_habit(habit_data, file, clock, p, t, s),
                   Call("add_uncompleted_habit", p, t, s, Null, "", "", "", ""))
    \/ \E p \in SavePeriods, t \in Tasks :
            Begins(remove_uncompleted_habit(habit_data, file, clock, p, t),
                   Call("remove_uncompleted_habit", p, t, "", Null, "", "", "", ""))
    \/ \E p \in SavePeriods, t \in Tasks :
            Begins(move_to_completed(habit_data, file, clock, p, t),
                   Call("move_to_completed", p, t, "", Null, "", "", "", ""))
    \/ \E p \in SavePeriods, t \in Tasks, c \in CompletionTimes :
            Begins(add_completed_habit(habit_data, file, clock, p, t, c),
                   Call("add_completed_habit", p, t, "", c, "", "", "", ""))
    \/ \E p \in SavePeriods, t \in Tasks :
            Begins(remove_completed_habit(habit_data, file, clock, p, t),
                   Call("remove_completed_habit", p, t, "", Null, "", "", "", ""))
    \/ \E p \in SavePeriods, t \in Tasks, nt \in {NoStr, "Run"} :
            Begins(edit_uncompleted_habit(habit_data, file, clock, p, t, nt, NoStr),
                   Call("edit_uncompleted_habit", p, t, "", Null, nt, NoStr, "", ""))
    \/ Writes
    \/ WriteFails
    \/ WriteEnds

SpecSave == Init /\ [][NextSave]_vars

(***************************************************************************)
(* Two sessions: two EditHabits objects that loaded the same file; each    *)
(* operation of either works on its own habit_data and saves it whole.     *)
(***************************************************************************)
Sessions == {1, 2}

\* faulty variant: an operation reads the file again before it works
Registry_reloaded(memory, f) == load_habit_data(f)

\* the registry an operation works on: self.habit_data, read from the file in __init__ only
Registry(memory, f) == memory

\* the documents the two sessions load: the empty one and one with a daily habit
TwoDocs ==
    WellFormedDocs
    \cup {add_uncompleted_habit(empty_data, JsonDump(empty_data), 0, "daily", "Read", "07:00").file}

InitTwo ==
    /\ file \in TwoDocs
    /\ habit_data = load_habit_data(file)
    /\ habit_data2 = load_habit_data(file)
    /\ clock = 1
    /\ last = Call("__init__", "", "", "", Null, "", "", "", "loaded")
    /\ preceding = NoCall
    /\ nops = 0
    /\ tasks_for_day = <<>>
    /\ all_habits = <<>>
    /\ analysis = EmptyAnalysis
    /\ habit_streaks = <<>>

SessionData(s) == IF s = 1 THEN habit_data ELSE habit_data2

SessionReturns(s, r, call) ==
    /\ nops < MaxTwoOps
    /\ IF s = 1
       THEN habit_data' = r.data /\ UNCHANGED habit_data2
       ELSE habit_data2' = r.data /\ UNCHANGED habit_data
    /\ file' = r.file
    /\ clock' = clock + r.ticks
    /\ last' = [call EXCEPT !.outcome = r.outcome, !.session = s]
    /\ preceding' = IF last.op = "add_uncompleted_habit" /\ last.outcome = "ok"
                    THEN last ELSE NoCall
    /\ nops' = nops + 1
    /\ UNCHANGED <<tasks_for_day, all_habits, analysis, habit_streaks>>

NextTwo ==
    \E s \in Sessions :
        LET d == Registry(SessionData(s), file)
        IN  \/ \E p \in SavePeriods, t \in Tasks, x \in Times :
                    SessionReturns(s, add_uncompleted_habit(d, file, clock, p, t, x),
                        Call("add_uncompleted_habit", p, t, x, Null, "", "", "", ""))
            \/ \E p \in SavePeriods, t \in Tasks :
                    SessionReturns(s, remove_uncompleted_habit(d, file, clock, p, t),
                        Call("remove_uncompleted_habit", p, t, "", Null, "", "", "", ""))
            \/ \E p \in SavePeriods, t \in Tasks :
                    SessionReturns(s, move_to_completed(d, file, clock, p, t),
                        Call("move_to_completed", p, t, "", Null, "", "", "", ""))
            \/ \E p \in SavePeriods, t \in Tasks, c \in CompletionTimes :
                    SessionReturns(s, add_completed_habit(d, file, clock, p, t, c),
                        Call("add_completed_habit", p, t, "", c, "", "", "", ""))
            \/ \E p \in SavePeriods, t \in Tasks :
                    SessionReturns(s, remove_completed_habit(d, file, clock, p, t),
                        Call("remove_completed_habit", p, t, "", Null, "", "", "", ""))
            \/ \E p \in SavePeriods, t \in Tasks, nt \in {NoStr, "Run"} :
                    SessionReturns(s, edit_uncompleted_habit(d, file, clock, p, t, nt, NoStr),
                        Call("edit_uncompleted_habit", p, t, "", Null, nt, NoStr, "", ""))

SpecTwo == InitTwo /\ [][NextTwo]_vars

(***************************************************************************)
(* Analysis: documents whose history holds completions of two tasks, in    *)
(* either insertion order; the first task's timestamps are any sequence of *)
(* distinct clock readings of three days, two of them on the same day.     *)
(***************************************************************************)
AnalyzeTicks == {0, 2, 3, 4}

\* the sequences without repetition over a set
DistinctSeqs(S) ==
    UNION {{q \in [1..n -> S] : \A i, j \in 1..n : q[i] = q[j] => i = j} :
           n \in 0..Cardinality(S)}

StampSeqs == {[i \in 1..Len(q) |-> StrNow(q[i])] : q \in DistinctSeqs(AnalyzeTicks)}
OtherStampSeqs == {<<>>, <<StrNow(0)>>, <<StrNow(0), StrNow(2)>>}

HistoryRecord(completed) ==
    [created |-> StrNow(0), completed |-> completed, removed |-> Null]

AnalyzeBuckets ==
    {<<>>, << <<"Read", "07:00">> >>, << <<"Run", "07:00">>, <<"Read", "07:00">> >>}

AnalyzeDocs ==
    {<< <<"uncompleted_habits", DictSet(EmptyBuckets, "daily", daily)>>,
        <<"completed_habits", EmptyBuckets>>,
        <<"history", IF rev
                     THEN << <<"Run", HistoryRecord(c2)>>, <<"Read", HistoryRecord(c1)>> >>
                     ELSE << <<"Read", HistoryRecord(c1)>>, <<"Run", HistoryRecord(c2)>> >> >> >> :
     daily \in AnalyzeBuckets, rev \in BOOLEAN, c1 \in StampSeqs, c2 \in OtherStampSeqs}

InitAnalyze ==
    /\ habit_data \in AnalyzeDocs
    /\ file = JsonDump(habit_data)
    /\ clock = 6
    /\ last = Call("__init__", "", "", "", Null, "", "", "", "loaded")
    /\ preceding = NoCall
    /\ nops = 0
    /\ tasks_for_day = <<>>
    /\ all_habits = <<>>
    /\ analysis = EmptyAnalysis
    /\ habit_streaks = <<>>
    /\ habit_data2 = <<>>

\* a ValueError leaves the caller without a returned dict
AnalyzeHabits ==
    LET r == analyze_habits(habit_data)
    IN  /\ last.op # "none"
        /\ nops < MaxOps
        /\ IF r.outcome = "ok"
           THEN /\ analysis' = r.analysis
                /\ habit_streaks' = r.habit_streaks
           ELSE UNCHANGED <<analysis, habit_streaks>>
        /\ last' = Call("analyze_habits", "", "", "", Null, "", "", "", r.outcome)
        /\ preceding' = NoCall
        /\ nops' = nops + 1
        /\ UNCHANGED <<file, habit_data, clock, tasks_for_day, all_habits, habit_data2>>

NextAnalyze ==
    /\ nops < MaxAnalyzeOps
    /\ \/ AnalyzeHabits
       \/ \E t \in Tasks : MoveToCompleted("daily", t)
       \/ \E t \in Tasks, c \in CompletionTimes : AddCompleted("daily", t, c)
       \/ \E t \in Tasks : RemoveCompleted("daily", t)

SpecAnalyze == InitAnalyze /\ [][NextAnalyze]_vars

(***************************************************************************)
(* Properties                                                              *)
(***************************************************************************)
UBucket(d, p) == DictGetOr(Uncompleted(d), p, <<>>)
CBucket(d, p) == DictGetOr(Completed(d), p, <<>>)
Members(seq) == {seq[i] : i \in 1..Len(seq)}
IsPrefix(s, t) == Len(s) <= Len(t) /\ SubSeq(t, 1, Len(s)) = s
MutatingOps == {"add_uncompleted_habit", "remove_uncompleted_habit", "move_to_completed",
                "add_completed_habit", "remove_completed_habit", "edit_uncompleted_habit"}

\* C1: a successful move_to_completed(p, task) on a recurring period whose uncompleted
\* bucket holds task leaves that bucket exactly as it was and appends the one record
\* (task, now) at the end of completed[p].
C1_RecurringCompleteKeeps ==
    [][(/\ last'.op = "move_to_completed"
        /\ last'.outcome = "ok"
        /\ last'.period \in RecurringPeriods
        /\ FirstMatch(UBucket(habit_data, last'.period), last'.task) > 0)
       => /\ UBucket(habit_data', last'.period) = UBucket(habit_data, last'.period)
          /\ CBucket(habit_data', last'.period)
                = Append(CBucket(habit_data, last'.period), <<last'.task, StrNow(clock)>>)]_vars

C1_Witness ==
    /\ last.op = "move_to_completed"
    /\ last.outcome = "ok"
    /\ last.period \in RecurringPeriods
    /\ Len(UBucket(habit_data, last.period)) = 2
    /\ UBucket(habit_data, last.period)[2][1] = last.task
    /\ CBucket(habit_data, last.period)[Len(CBucket(habit_data, last.period))][1] = last.task

\* C2 as stated: in every state, add_uncompleted_habit("once_off", task, schedule) followed
\* by a successful move_to_completed("once_off", task) leaves no habit (task, schedule) in
\* uncompleted["once_off"] and leaves a record for task in completed["once_off"].
C2_OnceOffCompleteRemovesAdded ==
    [][(/\ last.op = "add_uncompleted_habit"
        /\ last.outcome = "ok"
        /\ last.period = "once_off"
        /\ last'.op = "move_to_completed"
        /\ last'.outcome = "ok"
        /\ last'.period = "once_off"
        /\ last'.task = last.task)
       => /\ <<last.task, last.time>> \notin Members(UBucket(habit_data', "once_off"))
          /\ \E i \in 1..Len(CBucket(habit_data', "once_off")) :
                CBucket(habit_data', "once_off")[i][1] = last.task]_vars

\* C2 amended: add_uncompleted_habit("once_off", task, schedule) followed by a successful
\* move_to_completed("once_off", task) removes exactly the first habit named task from
\* uncompleted["once_off"] and appends the record (task, now) to completed["once_off"];
\* no habit (task, schedule) is left when the bucket held no habit named task before the
\* add, and otherwise the added habit is still the last one of the bucket.
C2_OnceOffCompleteRemovesFirst ==
    [][(/\ last.op = "add_uncompleted_habit"
        /\ last.outcome = "ok"
        /\ last.period = "once_off"
        /\ last'.op = "move_to_completed"
        /\ last'.outcome = "ok"
        /\ last'.period = "once_off"
        /\ last'.task = last.task)
       => LET before == UBucket(habit_data, "once_off")
              after == UBucket(habit_data', "once_off")
              first == FirstMatch(before, last.task)
          IN  /\ first > 0
              /\ after = RemoveAt(before, first)
              /\ CBucket(habit_data', "once_off")
                    = Append(CBucket(habit_data, "once_off"), <<last.task, StrNow(clock)>>)
              /\ first = Len(before)
                    => <<last.task, last.time>> \notin Members(after)
              /\ first < Len(before)
                    => after[Len(after)] = <<last.task, last.time>>]_vars

C2_Witness ==
    /\ last.op = "move_to_completed"
    /\ last.outcome = "ok"
    /\ last.period = "once_off"
    /\ preceding.op = "add_uncompleted_habit"
    /\ preceding.period = "once_off"
    /\ preceding.task = last.task
    /\ <<preceding.task, preceding.time>> \in Members(UBucket(habit_data, "once_off"))

\* C3 as stated: in every state and for every valid period p, add_uncompleted_habit(p,
\* task, schedule) followed by remove_uncompleted_habit(p, task) leaves uncompleted[p]
\* without the habit (task, schedule) and history[task].removed non-null.
C3_AddRemoveLeavesNone ==
    [][(/\ last.op = "add_uncompleted_habit"
        /\ last.period \in ExpectedPeriodSet
        /\ last'.op = "remove_uncompleted_habit"
        /\ last'.period = last.period
        /\ last'.task = last.task)
       => /\ <<last.task, last.time>> \notin Members(UBucket(habit_data', last.period))
          /\ DictHas(History(habit_data'), last.task)
          /\ DictGet(History(habit_data'), last.task).removed # Null]_vars

\* C3 amended: for every valid period p, add_uncompleted_habit(p, task, schedule) followed
\* by remove_uncompleted_habit(p, task) removes exactly the first habit named task from
\* uncompleted[p] and sets history[task].removed to now (non-null); no habit (task,
\* schedule) is left when the bucket held no habit named task before the add, and
\* otherwise the added habit is still the last one of the bucket.
C3_AddRemoveDropsFirst ==
    [][(/\ last.op = "add_uncompleted_habit"
        /\ last.period \in ExpectedPeriodSet
        /\ last'.op = "remove_uncompleted_habit"
        /\ last'.period = last.period
        /\ last'.task = last.task)
       => LET before == UBucket(habit_data, last.period)
              after == UBucket(habit_data', last.period)
              first == FirstMatch(before, last.task)
          IN  /\ last'.outcome = "ok"
              /\ first > 0
              /\ after = RemoveAt(before, first)
              /\ DictHas(History(habit_data'), last.task)
              /\ DictGet(History(habit_data'), last.task).removed = StrNow(clock)
              /\ StrNow(clock) # Null
              /\ first = Len(before)
                    => <<last.task, last.time>> \notin Members(after)
              /\ first < Len(before)
                    => after[Len(after)] = <<last.task, last.time>>]_vars

C3_Witness ==
    /\ last.op = "remove_uncompleted_habit"
    /\ last.outcome = "ok"
    /\ preceding.op = "add_uncompleted_habit"
    /\ preceding.period = last.period
    /\ preceding.task = last.task
    /\ <<preceding.task, preceding.time>> \in Members(UBucket(habit_data, last.period))
    /\ DictGet(History(habit_data), last.task).removed # Null

\* C4: add_uncompleted_habit(p, task, schedule) with a valid period appends (task,
\* schedule) as the last habit of uncompleted[p], keeps the earlier habits of that bucket
\* in their order, and leaves every other uncompleted bucket and every completed bucket
\* unchanged.
C4_AddAppendsLast ==
    [][(/\ last'.op = "add_uncompleted_habit"
        /\ last'.period \in ExpectedPeriodSet)
       => /\ last'.outcome = "ok"
          /\ UBucket(habit_data', last'.period)
                = UBucket(habit_data, last'.period) \o <<<<last'.task, last'.time>>>>
          /\ DictKeys(Uncompleted(habit_data')) = DictKeys(Uncompleted(habit_data))
          /\ \A q \in DictKeys(Uncompleted(habit_data)) \ {last'.period} :
                UBucket(habit_data', q) = UBucket(habit_data, q)
          /\ DictKeys(Completed(habit_data')) = DictKeys(Completed(habit_data))
          /\ \A q \in DictKeys(Completed(habit_data)) :
                CBucket(habit_data', q) = CBucket(habit_data, q)]_vars

C4_Witness ==
    /\ last.op = "add_uncompleted_habit"
    /\ last.outcome = "ok"
    /\ Len(UBucket(habit_data, last.period)) = 2
    /\ UBucket(habit_data, last.period)[1] # UBucket(habit_data, last.period)[2]
    /\ \E q \in ExpectedPeriodSet : CBucket(habit_data, q) # <<>>

\* C5: over every step a history record that exists still exists afterwards and its
\* completed list before the step is a prefix of its completed list after it; the
\* removals retract no completion timestamp.
C5_HistoryOnlyGrows ==
    [][\A t \in DictKeys(History(habit_data)) :
          /\ DictHas(History(habit_data'), t)
          /\ IsPrefix(DictGet(History(habit_data), t).completed,
                      DictGet(History(habit_data'), t).completed)]_vars

C5_Witness ==
    /\ last.op \in {"remove_completed_habit", "remove_uncompleted_habit"}
    /\ last.outcome = "ok"
    /\ DictHas(History(habit_data), last.task)
    /\ DictGet(History(habit_data), last.task).completed # <<>>

\* C6: once the tracker is constructed over a missing or well-formed file, after every
\* call (successful or reporting a soft failure) the file holds a JSON document equal to
\* habit_data.
C6_FileEqualsMemory ==
    last.op # "none" => (file.kind = "json" /\ load_habit_data(file) = habit_data)

C6_Witness ==
    /\ last.op = "edit_uncompleted_habit"
    /\ last.outcome = "ok"
    /\ last.new_time # NoStr
    /\ file.kind = "json"
    /\ \E i \in 1..Len(UBucket(file.data, last.period)) :
            UBucket(file.data, last.period)[i][2] = last.new_time

\* C7: remove_uncompleted_habit, move_to_completed, edit_uncompleted_habit and
\* remove_completed_habit, called with a valid period and a task that has no habit in the
\* bucket they search, report not-found and leave habit_data (buckets and history) and
\* the file unchanged.
C7_NotFoundChangesNothing ==
    [][(/\ last'.period \in ExpectedPeriodSet
        /\ \/ /\ last'.op \in {"remove_uncompleted_habit", "move_to_completed",
                               "edit_uncompleted_habit"}
              /\ FirstMatch(UBucket(habit_data, last'.period), last'.task) = 0
           \/ /\ last'.op = "remove_completed_habit"
              /\ FirstMatch(CBucket(habit_data, last'.period), last'.task) = 0)
       => /\ last'.outcome = "not_found"
          /\ habit_data' = habit_data
          /\ file' = file]_vars

C7_Witness ==
    /\ last.op = "remove_completed_habit"
    /\ last.outcome = "not_found"
    /\ FirstMatch(UBucket(habit_data, last.period), last.task) > 0
    /\ DictHas(History(habit_data), last.task)

\* C8: every mutating operation accepts its period exactly when it is one of the five
\* fixed periods, whatever JSON document was loaded; with any other period it reports
\* invalid period and leaves habit_data and the file unchanged.
C8_PeriodIsOneOfFive ==
    [][(/\ last'.op \in MutatingOps
        /\ file.kind = "json")
       => /\ (last'.outcome # "invalid_period") <=> (last'.period \in ExpectedPeriodSet)
          /\ last'.period \notin ExpectedPeriodSet
                => (habit_data' = habit_data /\ file' = file)]_vars

\* C9: constructing the tracker over a missing or an unparsable file yields the empty
\* registry (the five buckets present and empty on both sides, empty history), so that
\* add_uncompleted_habit with any valid period then succeeds and adds the habit.
C9_FallsBackToEmptyRegistry ==
    (last.op = "__init__" /\ last.outcome \in {"created", "decode_error"})
        => /\ habit_data = empty_data
           /\ \A p \in ExpectedPeriodSet :
                LET r == add_uncompleted_habit(habit_data, file, clock, p, "Read", "07:00")
                IN  r.outcome = "ok" /\ <<"Read", "07:00">> \in Members(UBucket(r.data, p))

\* The lines the period rules select on the calendar date dt: Daily always, Weekly when
\* the schedule contains the weekday name, Monthly when it starts with the two-digit day,
\* Yearly when it starts with MM-DD, OnceOff when it starts with YYYY-MM-DD.
DueByRule(d, dt) ==
    LET iso == FourDigits(dt.y) \o <<"-">> \o TwoDigits(dt.m) \o <<"-">> \o TwoDigits(dt.d)
        rule(p, h) ==
            CASE p = "daily" -> TRUE
              [] p = "weekly" -> Contains(Chars(h[2]), StrfWeekday(dt))
              [] p = "monthly" -> StartsWith(Chars(h[2]), TwoDigits(dt.d))
              [] p = "yearly" -> StartsWith(Chars(h[2]), TwoDigits(dt.m) \o <<"-">> \o TwoDigits(dt.d))
              [] p = "once_off" -> StartsWith(Chars(h[2]), iso)
        label(p) ==
            CASE p = "daily" -> "Daily" [] p = "weekly" -> "Weekly" [] p = "monthly" -> "Monthly"
              [] p = "yearly" -> "Yearly" [] p = "once_off" -> "Once-off"
        due(p) == SelectSeq(UBucket(d, p), LAMBDA h : rule(p, h))
        line(p) == [i \in 1..Len(due(p)) |-> <<label(p), due(p)[i][1], due(p)[i][2]>>]
    IN  line("daily") \o line("weekly") \o line("monthly") \o line("yearly") \o line("once_off")

\* C10: for every registry and every accepted date, get_tasks_for_day(date) is the
\* concatenation, in the order Daily, Weekly, Monthly, Yearly, OnceOff and in bucket
\* order, of one line per uncompleted habit that matches its period's rule on the
\* calendar date; completed buckets contribute nothing.
C10_DueFollowsPeriodRules ==
    (last.op = "get_tasks_for_day" /\ last.outcome = "ok")
        => tasks_for_day = DueByRule(habit_data, strptime(Chars(last.date)))

\* C11: get_tasks_for_day called with a date string that strptime rejects returns the
\* empty list and leaves habit_data and the file unchanged.
C11_BadDateReturnsNothing ==
    [][(/\ last'.op = "get_tasks_for_day"
        /\ ~strptime(Chars(last'.date)).ok)
       => /\ last'.outcome = "invalid_date"
          /\ tasks_for_day' = <<>>
          /\ habit_data' = habit_data
          /\ file' = file]_vars

C11_Witness ==
    /\ last.op = "get_tasks_for_day"
    /\ last.outcome = "invalid_date"
    /\ last.date = "2024-02-30"
    /\ UBucket(habit_data, "daily") # <<>>
    /\ tasks_for_day = <<>>

\* the listing the period order Daily, Weekly, Monthly, Yearly, OnceOff gives: every
\* uncompleted bucket in that order, then every completed bucket in that order
RECURSIVE PeriodLines(_, _, _)
PeriodLines(state, buckets, periods) ==
    IF periods = <<>> THEN <<>>
    ELSE ListLines(state, periods[1], DictGetOr(buckets, periods[1], <<>>))
         \o PeriodLines(state, buckets, Tail(periods))

ListInPeriodOrder(d) ==
    PeriodLines("Uncompleted", Uncompleted(d), expected_periods)
    \o PeriodLines("Completed", Completed(d), expected_periods)

\* C12: list_all_habits returns one line per entry, the uncompleted lines before the
\* completed lines, each group in the period order daily, weekly, monthly, yearly,
\* once_off and in bucket order, also when the loaded document stores its period keys
\* in another order.
C12_ListedInPeriodOrder ==
    last.op = "list_all_habits" => all_habits = ListInPeriodOrder(habit_data)

Analyzed == last.op = "analyze_habits" /\ last.outcome = "ok"

\* the calendar days on which a task has a completion
CompletionDays(completed) == {DateOf(completed[i]) : i \in 1..Len(completed)}

\* the largest number of consecutive calendar days all in a set of days
LongestRun(days) ==
    LET runs == {k \in 0..Cardinality(days) :
                    k = 0 \/ \E first \in days : \A j \in 0..(k - 1) : first + j \in days}
    IN  CHOOSE k \in runs : \A other \in runs : other <= k

\* C13: for every task the streak length analyze_habits computes is the largest number
\* of consecutive calendar days on each of which the task has a completion, whatever
\* the order of the timestamps and also with several completions on one day.
C13_StreakIsLongestRun ==
    Analyzed =>
        \A i \in 1..Len(History(habit_data)) :
            LET task == History(habit_data)[i][1]
                completed == History(habit_data)[i][2].completed
            IN  /\ DictHas(habit_streaks, task)
                /\ DictGet(habit_streaks, task) = LongestRun(CompletionDays(completed))

\* the greatest of a non-empty set of numbers
MaxOf(S) == CHOOSE x \in S : \A y \in S : y <= x

\* the first position of a sequence of per-task figures that holds the value best
FirstWith(figures, best) ==
    CHOOSE i \in 1..Len(figures) :
        figures[i] = best /\ \A k \in 1..(i - 1) : figures[k] # best

\* the greatest of a sequence of per-task figures, 0 without tasks
Greatest(figures) == MaxOf({0} \cup {figures[i] : i \in 1..Len(figures)})

\* per task, in history insertion order: the number of completion timestamps
CompletionCounts(history) == [i \in 1..Len(history) |-> Len(history[i][2].completed)]

\* per task, in history insertion order: the longest run of consecutive completion days
CompletionRuns(history) ==
    [i \in 1..Len(history) |-> LongestRun(CompletionDays(history[i][2].completed))]

C15_LongestStreakIsFirstGreatest ==
    Analyzed =>
        LET history == History(habit_data)
            runs == CompletionRuns(history)
            best == Greatest(runs)
        IN  analysis.longest_streak =
                IF best = 0
                THEN [habit |-> NoneHabit, streak_length |-> 0]
                ELSE [habit |-> history[FirstWith(runs, best)][1],
                      streak_length |-> best]

OtherBucketsSame(before, after, period) ==
    /\ Len(after) = Len(before)
    /\ \A k \in 1..Len(before) :
           /\ after[k][1] = before[k][1]
           /\ before[k][1] # period => after[k][2] = before[k][2]

\* C17: a successful edit_uncompleted_habit changes only the first habit of the bucket
\* named old_task, at its position, replacing the fields that were supplied and keeping
\* an omitted one; every other habit, every other bucket, the completed buckets and the
\* history stay as they were.
C17_EditChangesFirstMatchOnly ==
    [][(last'.op = "edit_uncompleted_habit" /\ last'.outcome = "ok")
       => LET period == last'.period
              bucket == UBucket(habit_data, period)
              after == UBucket(habit_data', period)
              i == FirstMatch(bucket, last'.task)
          IN  /\ i > 0
              /\ Len(after) = Len(bucket)
              /\ \A k \in 1..Len(bucket) : k # i => after[k] = bucket[k]
              /\ after[i][1] = IF last'.new_task # NoStr THEN last'.new_task ELSE bucket[i][1]
              /\ after[i][2] = IF last'.new_time # NoStr THEN last'.new_time ELSE bucket[i][2]
              /\ OtherBucketsSame(Uncompleted(habit_data), Uncompleted(habit_data'), period)
              /\ Completed(habit_data') = Completed(habit_data)
              /\ History(habit_data') = History(habit_data)]_vars

\* of two habits named "Read" the first was renamed, keeping its time, the second was not
C17_Witness ==
    /\ last.op = "edit_uncompleted_habit"
    /\ last.outcome = "ok"
    /\ last.task = "Read"
    /\ last.new_task = "Run"
    /\ last.new_time = NoStr
    /\ UBucket(habit_data, last.period) = << <<"Run", "07:00">>, <<"Read", "Monday 09:00">> >>

\* the history after one more completion of task at time ts
HistoryWithCompletion(history, task, ts) ==
    IF DictHas(history, task)
    THEN [history EXCEPT ![DictIdx(history, task)] =
              <<task, [DictGet(history, task) EXCEPT !.completed = Append(@, ts)]>>]
    ELSE Append(history, <<task, [created |-> Null, completed |-> <<ts>>, removed |-> Null]>>)

\* C18: add_completed_habit with one of the five periods succeeds whether or not the
\* task is in the uncompleted bucket; it appends (task, time) to the completed bucket and
\* the time to the task's history record (created with null created and removed when
\* absent), the very update move_to_completed makes to the history, and it changes no
\* uncompleted bucket, once_off included.
C18_AddCompletedAppendsOnly ==
    [][/\ (last'.op = "add_completed_habit" /\ last'.period \in ExpectedPeriodSet)
          => /\ last'.outcome = "ok"
             /\ CBucket(habit_data', last'.period) =
                    Append(CBucket(habit_data, last'.period), <<last'.task, last'.stamp>>)
             /\ OtherBucketsSame(Completed(habit_data), Completed(habit_data'), last'.period)
             /\ History(habit_data') =
                    HistoryWithCompletion(History(habit_data), last'.task, last'.stamp)
             /\ Uncompleted(habit_data') = Uncompleted(habit_data)
       /\ (last'.op = "move_to_completed" /\ last'.outcome = "ok")
          => History(habit_data') =
                 HistoryWithCompletion(History(habit_data), last'.task, StrNow(clock))]_vars

\* a completion was added for a once_off habit that is, and stays, in the uncompleted bucket
C18_Witness ==
    /\ last.op = "add_completed_habit"
    /\ last.outcome = "ok"
    /\ last.period = "once_off"
    /\ FirstMatch(UBucket(habit_data, "once_off"), last.task) > 0
    /\ FirstMatch(CBucket(habit_data, "once_off"), last.task) > 0

C20_CreatedIsWrittenOnce ==
    [][/\ (last'.op = "add_uncompleted_habit" /\ last'.outcome = "ok")
          => History(habit_data') =
                 IF DictHas(History(habit_data), last'.task)
                 THEN History(habit_data)
                 ELSE Append(History(habit_data),
                             <<last'.task, [created |-> StrNow(clock), completed |-> <<>>,
                                            removed |-> Null]>>)
       /\ \A i \in 1..Len(History(habit_data)) :
              /\ Len(History(habit_data')) >= i
              /\ History(habit_data')[i][1] = History(habit_data)[i][1]
              /\ History(habit_data')[i][2].created = History(habit_data)[i][2].created]_vars

\* a habit was added whose history record, made by add_completed_habit, has a null created
C20_Witness ==
    /\ last.op = "add_uncompleted_habit"
    /\ last.outcome = "ok"
    /\ DictHas(History(habit_data), last.task)
    /\ DictGet(History(habit_data), last.task).created = Null
    /\ DictGet(History(habit_data), last.task).completed # <<>>

C22_SaveIsAtomic ==
    last.op \in MutatingOps => file.kind = "json"

\* what the operation of a call makes of the registry d, the file f and the clock
ApplyCall(call, d, f, now) ==
    CASE call.op = "add_uncompleted_habit" ->
            add_uncompleted_habit(d, f, now, call.period, call.task, call.time)
      [] call.op = "remove_uncompleted_habit" ->
            remove_uncompleted_habit(d, f, now, call.period, call.task)
      [] call.op = "move_to_completed" ->
            move_to_completed(d, f, now, call.period, call.task)
      [] call.op = "add_completed_habit" ->
            add_completed_habit(d, f, now, call.period, call.task, call.stamp)
      [] call.op = "remove_completed_habit" ->
            remove_completed_habit(d, f, now, call.period, call.task)
      [] call.op = "edit_uncompleted_habit" ->
            edit_uncompleted_habit(d, f, now, call.period, call.task,
                                   call.new_task, call.new_time)

HasUnparsedStamp(d) ==
    \E i \in 1..Len(History(d)) :
        \E k \in 1..Len(History(d)[i][2].completed) :
            ~ParsesMicro(History(d)[i][2].completed[k])

\* C23: when a completion timestamp in the history is not in the microsecond form, such
\* as one given to add_completed_habit as 'YYYY-MM-DD HH:MM', analyze_habits raises a
\* parse error and returns nothing; it never skips the timestamp, and after no sequence
\* of operations does it return a result while such a timestamp is in the history.
C23_UnparsedStampFailsAnalysis ==
    [][last'.op = "analyze_habits"
       => /\ HasUnparsedStamp(habit_data)
                => /\ last'.outcome = "ValueError"
                   /\ analysis' = analysis
                   /\ habit_streaks' = habit_streaks
          /\ last'.outcome = "ok" => ~HasUnparsedStamp(habit_data)]_vars

\* the history of "Read" holds timestamps that parse and one from add_completed_habit
\* that does not, and analyze_habits raised
C23_Witness ==
    /\ last.op = "analyze_habits"
    /\ last.outcome = "ValueError"
    /\ DictHas(History(habit_data), "Read")
    /\ \E k \in 1..Len(DictGet(History(habit_data), "Read").completed) :
           DictGet(History(habit_data), "Read").completed[k].form = "minute"
    /\ \E k \in 1..Len(DictGet(History(habit_data), "Read").completed) :
           DictGet(History(habit_data), "Read").completed[k].form = "micro"
    /\ analysis = EmptyAnalysis

\* the task names of the habits and records held in the buckets of a bucket map
BucketTasks(buckets) ==
    UNION {{buckets[i][2][k][1] : k \in 1..Len(buckets[i][2])} : i \in 1..Len(buckets)}

ListedTasks(d) == BucketTasks(Uncompleted(d)) \cup BucketTasks(Completed(d))

\* every task name found in a bucket has a history record
AllListedHaveHistory(d) == \A t \in ListedTasks(d) : DictHas(History(d), t)

RenamingEdit(call) ==
    call.op = "edit_uncompleted_habit" /\ call.outcome = "ok" /\ call.new_task # NoStr

\* C25 as stated: from an empty registry, after any sequence of operations, every task
\* name that appears in an uncompleted or completed bucket has a history record.
C25_EveryListedTaskHasHistory == AllListedHaveHistory(habit_data)

\* C25 as amended: from an empty registry, every operation other than an
\* edit_uncompleted_habit that gives a new task name keeps every task name of the buckets
\* with a history record; such an edit puts the new name into the bucket and creates no
\* record, so a new name without a record is then listed without one.
C25_OnlyRenameBreaksHistory ==
    [][/\ (AllListedHaveHistory(habit_data) /\ ~RenamingEdit(last'))
          => AllListedHaveHistory(habit_data')
       /\ (RenamingEdit(last') /\ ~DictHas(History(habit_data), last'.new_task))
          => /\ last'.new_task \in ListedTasks(habit_data')
             /\ ~DictHas(History(habit_data'), last'.new_task)]_vars

\* "Read" was added and renamed to "Run": "Run" is in a bucket and has no history record
C25_Witness ==
    /\ RenamingEdit(last)
    /\ last.task = "Read"
    /\ last.new_task = "Run"
    /\ "Run" \in ListedTasks(habit_data)
    /\ DictHas(History(habit_data), "Read")
    /\ ~DictHas(History(habit_data), "Run")

\* the number of records named task over all completed buckets
CompletedCount(d, task) ==
    Cardinality(UNION {{<<i, k>> : k \in {n \in 1..Len(Completed(d)[i][2]) :
                                              Completed(d)[i][2][n][1] = task}} :
                       i \in 1..Len(Completed(d))})

\* len(history[task]["completed"]), 0 without a record
HistoryCount(d, task) ==
    IF DictHas(History(d), task) THEN Len(DictGet(History(d), task).completed) ELSE 0

\* C26: from an empty registry, for every task the number of records of that name over
\* all completed buckets is at most the number of completion timestamps in its history
\* record, and the two stay equal until remove_completed_habit succeeds for the task.
C26_CompletedWithinHistory ==
    [][\A t \in Tasks :
          /\ CompletedCount(habit_data', t) <= HistoryCount(habit_data', t)
          /\ (/\ CompletedCount(habit_data, t) = HistoryCount(habit_data, t)
              /\ ~(/\ last'.op = "remove_completed_habit"
                   /\ last'.outcome = "ok"
                   /\ last'.task = t))
             => CompletedCount(habit_data', t) = HistoryCount(habit_data', t)]_vars

\* one of two records of "Read" was removed: one is left against two in the history,
\* while "Run", never removed, has as many records as history entries
C26_Witness ==
    /\ last.op = "remove_completed_habit"
    /\ last.outcome = "ok"
    /\ last.task = "Read"
    /\ CompletedCount(habit_data, "Read") = 1
    /\ HistoryCount(habit_data, "Read") = 2
    /\ CompletedCount(habit_data, "Run") = HistoryCount(habit_data, "Run")

\* the in-memory registry of the session that makes the step to last'
StaleCopy == IF last'.session = 1 THEN habit_data ELSE habit_data2

\* C27: two sessions loaded the same document; when one session has made a successful
\* mutation and the other session then makes a successful mutation, the file becomes the
\* second session's operation applied to the copy it loaded, so a habit the first session
\* added is no longer in the file, the first session's registry is left as it was, and
\* the second session's outcome is the one its own copy gives, whatever the file holds.
C27_SecondWriterOverwritesFirst ==
    [][(/\ last.op \in MutatingOps
        /\ last.outcome = "ok"
        /\ last'.op \in MutatingOps
        /\ last'.session # last.session)
       => /\ last'.outcome = ApplyCall(last', StaleCopy, file, clock).outcome
          /\ last'.outcome = "ok" =>
                /\ file' = JsonDump(ApplyCall(last', StaleCopy, file, clock).data)
                /\ IF last.session = 1 THEN habit_data' = habit_data
                                        ELSE habit_data2' = habit_data2
                /\ (/\ last.op = "add_uncompleted_habit"
                    /\ <<last.task, last.time>> \notin Members(UBucket(StaleCopy, last.period))
                    /\ last'.op \notin {"add_uncompleted_habit", "edit_uncompleted_habit"})
                   => <<last.task, last.time>>
                          \notin Members(UBucket(load_habit_data(file'), last.period))]_vars

\* session 1 added "Read", session 2 then added "Run" to the copy it loaded before: the
\* file holds "Run" and no "Read", session 1 still holds "Read", both calls succeeded
C27_Witness ==
    /\ preceding.op = "add_uncompleted_habit"
    /\ preceding.session = 1
    /\ preceding.task = "Read"
    /\ preceding.period = "daily"
    /\ last.op = "add_uncompleted_habit"
    /\ last.session = 2
    /\ last.outcome = "ok"
    /\ last.task = "Run"
    /\ last.period = "daily"
    /\ "Read" \in BucketTasks(Uncompleted(habit_data))
    /\ "Run" \in BucketTasks(Uncompleted(load_habit_data(file)))
    /\ "Read" \notin BucketTasks(Uncompleted(load_habit_data(file)))

====
